---- MODULE Spec2Model ----
(***************************************************************************)
(* A model of the replica service of collaborative-coding-backend:         *)
(*   - the RGA engine (replica/src/rga.rs),                                *)
(*   - the request handlers that drive it (replica/src/routes.rs),         *)
(*   - the shared relational store (document_snapshots, operations) and    *)
(*     the SNS topic, as far as the handlers use them.                     *)
(* One document is modelled; every handler holds the replica's rgas mutex  *)
(* from its first line to its return, so a handler is one atomic step.     *)
(***************************************************************************)
EXTENDS Integers, Sequences, FiniteSets, Bags, TLC

\* ------------------------------------------------------------------ bounds
\* Local insert/update/delete requests served in one behaviour (all replicas).
MaxRequests == 2
\* The same, in the behaviours that run with every I/O succeeding; no handler
\* serves a request beyond this number.
RequestCap == 3
\* The same, in the behaviours that step through the rgas mutex.
MaxLockRequests == 1

\* ------------------------------------------------------- program constants
\* The replica ids given on the command line (main.rs: arguments.get(2)).
Replicas == {1, 2}
\* Values a client sends.
Values == {"A", "B"}
\* Option::None of an Option<S4Vector>, and of an Option<String>.
None == <<>>
Null == "null"
\* fetch_document builds the RGA as RGA::new(replica_id, 1): the second
\* argument (site_id) is the literal 1.
FetchSiteId == 1
\* The single document of the model.
DocId == "doc"
\* The requests a replica serves at the same time (rocket's worker tasks).
Slots == {1, 2}

\* -------------------------------------------------------------- S4Vector
\* s4vector.rs is not among the source files; generation and ordering follow
\* the specification: lexicographic order over (ssn, sum, sid, seq), and
\* sum = 1 + max(left.sum, right.sum), seq = fetch-and-increment.
S4(ssn, sum, sid, seq) == <<ssn, sum, sid, seq>>

S4Less(a, b) ==
    \/ a[1] < b[1]
    \/ a[1] = b[1] /\ a[2] < b[2]
    \/ a[1] = b[1] /\ a[2] = b[2] /\ a[3] < b[3]
    \/ a[1] = b[1] /\ a[2] = b[2] /\ a[3] = b[3] /\ a[4] < b[4]

S4Greater(a, b) == S4Less(b, a)

SumOf(x) == IF x = None THEN 0 ELSE x[2]

MaxOf(a, b) == IF a >= b THEN a ELSE b

\* S4Vector::generate(left, right, session_id, site_id, &mut local_sequence):
\* the vector minted; the caller's counter is advanced by one.
S4Generate(left, right, session_id, site_id, local_sequence) ==
    S4(session_id, 1 + MaxOf(SumOf(left), SumOf(right)), site_id, local_sequence)

\* ------------------------------------------------------------------- Node
NodeNew(value, s4, left, right) ==
    [value |-> value, s4vector |-> s4, tombstone |-> FALSE,
     left |-> left, right |-> right]

\* An entry of RGA::buffer.
Operation(kind, s4, value, left, right) ==
    [operation |-> kind, s4vector |-> s4, value |-> value, tombstone |-> FALSE,
     left |-> left, right |-> right]

\* -------------------------------------------------------------------- RGA
RGANew(session_id, site_id) ==
    [head |-> None, hash_map |-> <<>>, buffer |-> <<>>,
     session_id |-> session_id, site_id |-> site_id, local_sequence |-> 0]

\* What an engine call leaves behind: the RGA, how the call ended
\* ("ok", "err" = Err(DependancyError), "panic" = the call unwound,
\* "spin" = a loop of the call never ends), and the descriptor returned.
Result(rga, outcome, op) == [rga |-> rga, outcome |-> outcome, op |-> op]

\* The while loop of insert_into_list, from `current`: the id it stops at.
\* The loop steps from a node to its successor unless the successor is
\* greater than the node it is standing on; it leaves the chain when
\* `current` is no key of hash_map.
RECURSIVE ScanFrom(_, _)
ScanFrom(hash_map, current) ==
    IF current \notin DOMAIN hash_map THEN current
    ELSE LET node == hash_map[current] IN
         IF node.right = None THEN current
         ELSE IF S4Greater(node.right, node.s4vector) THEN current
         ELSE IF node.right = current THEN current
         ELSE ScanFrom(hash_map, node.right)

\* Whether that loop never ends: ids strictly decrease along the steps it
\* takes, except at a node that is its own successor, where it stays.
RECURSIVE ScanSpins(_, _)
ScanSpins(hash_map, current) ==
    IF current \notin DOMAIN hash_map THEN FALSE
    ELSE LET node == hash_map[current] IN
         IF node.right = None THEN FALSE
         ELSE IF S4Greater(node.right, node.s4vector) THEN FALSE
         ELSE IF node.right = current THEN TRUE
         ELSE ScanSpins(hash_map, node.right)

\* insert_into_list followed by the caller's hash_map.insert(node.s4vector, node).
\* The node found by the scan gets the new node as successor and the new node
\* inherits its successor; with no left anchor, or an empty list, the new node
\* becomes head. The new node replaces any node stored under the same key.
InsertIntoList(rga, node) ==
    LET hm      == rga.hash_map
        current == IF node.left = None THEN None ELSE ScanFrom(hm, node.left)
        linked  == node.left # None /\ current \in DOMAIN hm
        placed  == IF linked THEN [node EXCEPT !.right = hm[current].right] ELSE node
        hm1     == IF linked THEN [hm EXCEPT ![current].right = node.s4vector] ELSE hm
        head1   == IF rga.head = None \/ node.left = None
                   THEN node.s4vector ELSE rga.head
    IN [rga EXCEPT !.head = head1,
                   !.hash_map = (node.s4vector :> placed) @@ hm1]

InsertSpins(rga, left) == left # None /\ ScanSpins(rga.hash_map, left)

\* remote_insert: no dependency check; the boxed sweep is never awaited.
RemoteInsert(rga, value, s4, left, right) ==
    IF InsertSpins(rga, left) THEN Result(rga, "spin", None)
    ELSE Result(InsertIntoList(rga, NodeNew(value, s4, left, right)), "ok", None)

\* remote_delete: returns at once when the target is no key of hash_map.
RemoteDelete(rga, s4) ==
    IF s4 \notin DOMAIN rga.hash_map THEN Result(rga, "ok", None)
    ELSE Result([rga EXCEPT !.hash_map[s4].tombstone = TRUE], "ok", None)

\* remote_update: indexes hash_map by the target (a missing key panics).
RemoteUpdate(rga, s4, value) ==
    IF s4 \notin DOMAIN rga.hash_map THEN Result(rga, "panic", None)
    ELSE IF rga.hash_map[s4].tombstone THEN Result(rga, "ok", None)
    ELSE Result([rga EXCEPT !.hash_map[s4].value = value], "ok", None)

\* One remote operation by kind (the match of apply_buffered_operations and
\* of handle_sns_notification).
RemoteApply(rga, op) ==
    CASE op.operation = "Insert" ->
            RemoteInsert(rga, op.value, op.s4vector, op.left, op.right)
      [] op.operation = "Update" -> RemoteUpdate(rga, op.s4vector, op.value)
      [] op.operation = "Delete" -> RemoteDelete(rga, op.s4vector)

\* apply_buffered_operations: one pass over a copy of the buffer. An entry
\* with a left anchor that is no key of hash_map is kept; every other entry
\* is applied through the remote operation of its kind. The buffer is
\* replaced only when the pass reaches its end.
\* The caller of the sweep holds an Arc to the node stored under `watch`; when
\* the pass stores another node under that key, `held` keeps the caller's
\* node as insert_into_list left it (None while the map still holds it).
Detached(rga, watch, op) ==
    LET hm      == rga.hash_map
        current == IF op.left = None THEN None ELSE ScanFrom(hm, op.left)
    IN IF op.left # None /\ current = watch
       THEN [hm[watch] EXCEPT !.right = op.s4vector]
       ELSE hm[watch]

RECURSIVE SweepFrom(_, _, _, _, _, _)
SweepFrom(rga, ops, i, new_buffer, watch, held) ==
    IF i > Len(ops) THEN Result([rga EXCEPT !.buffer = new_buffer], "ok", held)
    ELSE LET op == ops[i] IN
         IF op.left # None /\ op.left \notin DOMAIN rga.hash_map
         THEN SweepFrom(rga, ops, i + 1, Append(new_buffer, op), watch, held)
         ELSE LET res   == RemoteApply(rga, op)
                  held1 == IF /\ held = None
                              /\ op.operation = "Insert"
                              /\ op.s4vector = watch
                              /\ res.outcome = "ok"
                           THEN Detached(rga, watch, op) ELSE held
              IN IF res.outcome # "ok" THEN res
                 ELSE SweepFrom(res.rga, ops, i + 1, new_buffer, watch, held1)

ApplyBufferedOperations(rga, watch) ==
    SweepFrom(rga, rga.buffer, 1, <<>>, watch, None)

\* The node behind the caller's Arc once the sweep has ended.
Held(swept, s4) == IF swept.op = None THEN swept.rga.hash_map[s4] ELSE swept.op

\* The descriptor a local operation returns, read from the node after the sweep.
BroadcastOperation(kind, node, value) ==
    [operation |-> kind, s4vector |-> node.s4vector, value |-> value,
     left |-> node.left, right |-> node.right]

\* local_insert.
LocalInsert(rga, value, left, right) ==
    LET new_s4 == S4Generate(left, right, rga.session_id, rga.site_id,
                             rga.local_sequence)
        rga1   == [rga EXCEPT !.local_sequence = @ + 1]
        unmet  == \/ left # None /\ left \notin DOMAIN rga.hash_map
                  \/ left = None /\ right # None /\ right \notin DOMAIN rga.hash_map
    IN IF unmet
       THEN Result([rga1 EXCEPT !.buffer =
                       Append(@, Operation("Insert", new_s4, value, left, right))],
                   "err", None)
       ELSE IF InsertSpins(rga1, left) THEN Result(rga1, "spin", None)
       ELSE LET rga2 == InsertIntoList(rga1, NodeNew(value, new_s4, left, right))
                swept == ApplyBufferedOperations(rga2, new_s4)
            IN IF swept.outcome # "ok" THEN swept
               ELSE LET node == Held(swept, new_s4)
                    IN Result(swept.rga, "ok",
                              BroadcastOperation("Insert", node, node.value))

\* local_delete that answers a missing target with the error alone.
LocalDeleteUnbuffered(rga, s4) ==
    IF s4 \notin DOMAIN rga.hash_map
    THEN Result(rga, "err", None)
    ELSE LET rga1  == [rga EXCEPT !.hash_map[s4].tombstone = TRUE]
             swept == ApplyBufferedOperations(rga1, s4)
         IN IF swept.outcome # "ok" THEN swept
            ELSE Result(swept.rga, "ok",
                        BroadcastOperation("Delete", Held(swept, s4), Null))

\* local_delete.
LocalDelete(rga, s4) ==
    IF s4 \notin DOMAIN rga.hash_map
    THEN Result([rga EXCEPT !.buffer =
                    Append(@, Operation("Delete", s4, Null, None, None))],
                "err", None)
    ELSE LET rga1  == [rga EXCEPT !.hash_map[s4].tombstone = TRUE]
             swept == ApplyBufferedOperations(rga1, s4)
         IN IF swept.outcome # "ok" THEN swept
            ELSE Result(swept.rga, "ok",
                        BroadcastOperation("Delete", Held(swept, s4), Null))

\* local_update.
LocalUpdate(rga, s4, value) ==
    IF s4 \notin DOMAIN rga.hash_map
    THEN Result([rga EXCEPT !.buffer =
                    Append(@, Operation("Update", s4, value, None, None))],
                "err", None)
    ELSE LET rga1  == IF rga.hash_map[s4].tombstone THEN rga
                      ELSE [rga EXCEPT !.hash_map[s4].value = value]
             swept == ApplyBufferedOperations(rga1, s4)
         IN IF swept.outcome # "ok" THEN swept
            ELSE LET node == Held(swept, s4)
                 IN Result(swept.rga, "ok",
                           BroadcastOperation("Update", node, node.value))

\* The ids read() visits, in order: from head along the successor links,
\* until a link is empty or names no key of hash_map. `seen` cuts the walk
\* where the code would go round a cycle for ever.
RECURSIVE Walk(_, _, _)
Walk(hash_map, current, seen) ==
    IF current = None \/ current \notin DOMAIN hash_map \/ current \in seen
    THEN <<>>
    ELSE <<current>> \o Walk(hash_map, hash_map[current].right, seen \cup {current})

Traversal(rga) == Walk(rga.hash_map, rga.head, {})

\* read() never returns: the walk comes back to a node it has visited.
ReadSpins(rga) ==
    LET t == Traversal(rga) IN
    /\ Len(t) > 0
    /\ rga.hash_map[t[Len(t)]].right \in {t[i] : i \in 1..Len(t)}

RECURSIVE LiveValues(_, _)
LiveValues(hash_map, ids) ==
    IF ids = <<>> THEN <<>>
    ELSE (IF hash_map[Head(ids)].tombstone THEN <<>>
          ELSE <<hash_map[Head(ids)].value>>)
         \o LiveValues(hash_map, Tail(ids))

\* read(): the values of the nodes visited that are not tombstoned.
Read(rga) == LiveValues(rga.hash_map, Traversal(rga))

\* ------------------------------------------------------------------ state
VARIABLES
    created,    \* the document row exists (create_document returned its id)
    snapshot,   \* document_snapshots of the document: S4Vector -> row
    log,        \* operations of the document: a bag of rows
    rgas,       \* per replica, SharedRGAs: document id -> RGA
    hung,       \* per replica: a handler spins for ever, holding the rgas mutex
    sns,        \* the messages published to the topic
    requests,   \* local requests served so far
    applied,    \* history: per replica, what its RGA has been given since activation
    loaded_from,\* history: per replica, the snapshot rows it was activated from
    minted,     \* history: per replica, the S4Vectors generate() returned, in order
    restarted,  \* history: per replica, whether its process has been restarted
    publish_failed, \* history: per replica, a publish of this activation failed
    mutex,      \* per replica: the rgas mutex is locked
    pc,         \* per replica and request slot: "idle", or "locked" past rgas.lock().await
    seen,       \* per replica and slot: the map of RGAs the guard of the slot gives
    ring,       \* load balancer: LoadBalancer.ring, the hashes of the node addresses
    lamport_timestamp, \* load balancer: LoadBalancer.lamport_timestamp
    exchanges,  \* load balancer, history: what distribute met and did, per request
    rejected    \* history: per replica, the last invalid request and its answer

vars == <<created, snapshot, log, rgas, hung, sns, requests,
          applied, loaded_from, minted, restarted, publish_failed,
          mutex, pc, seen, ring, lamport_timestamp, exchanges, rejected>>

Loaded(r) == DocId \in DOMAIN rgas[r]
Rga(r) == rgas[r][DocId]
Ready(r) == Loaded(r) /\ ~hung[r]

\* The S4Vectors a client can have seen: in a replica, in the store, in a message.
KnownIds ==
    UNION {IF Loaded(r) THEN DOMAIN Rga(r).hash_map ELSE {} : r \in Replicas} \cup
    DOMAIN snapshot \cup
    {m.op.s4vector : m \in sns}

Row(value, tombstone) == [value |-> value, tombstone |-> tombstone]
LogRow(s4, value, tombstone) ==
    [s4vector |-> s4, value |-> value, tombstone |-> tombstone]

\* A published message: the descriptor, and the replica that published it.
Message(op, r) == [op |-> op, publisher |-> r]

\* ORDER BY ssn, sum, sid, seq.
RECURSIVE SortIds(_)
SortIds(ids) ==
    IF ids = {} THEN <<>>
    ELSE LET m == CHOOSE x \in ids : \A y \in ids \ {x} : S4Less(x, y)
         IN <<m>> \o SortIds(ids \ {m})

\* The loop of fetch_document over the rows: remote_insert(value, s4, None, None).
RECURSIVE Replay(_, _, _)
Replay(rga, rows, ids) ==
    IF ids = <<>> THEN rga
    ELSE Replay(RemoteInsert(rga, rows[Head(ids)].value, Head(ids), None, None).rga,
                rows, Tail(ids))

\* fetch_document's RGA for replica r from the rows of the snapshot.
LoadFromSnapshot(r, rows) ==
    Replay(RGANew(r, FetchSiteId), rows, SortIds(DOMAIN rows))

\* The replica service after main has built it.
InitReplicas ==
    /\ created = FALSE
    /\ snapshot = <<>>
    /\ log = EmptyBag
    /\ rgas = [r \in Replicas |-> <<>>]
    /\ hung = [r \in Replicas |-> FALSE]
    /\ sns = {}
    /\ requests = 0
    /\ applied = [r \in Replicas |-> {}]
    /\ loaded_from = [r \in Replicas |-> <<>>]
    /\ minted = [r \in Replicas |-> <<>>]
    /\ restarted = [r \in Replicas |-> FALSE]
    /\ publish_failed = [r \in Replicas |-> FALSE]
    /\ mutex = [r \in Replicas |-> FALSE]
    /\ pc = [r \in Replicas |-> [k \in Slots |-> "idle"]]
    /\ seen = [r \in Replicas |-> [k \in Slots |-> None]]
    /\ rejected = [r \in Replicas |-> [kind |-> "none", answer |-> "none"]]

\* The replica service alone: no request goes through the load balancer.
Init ==
    /\ InitReplicas
    /\ ring = {}
    /\ lamport_timestamp = 0
    /\ exchanges = <<>>

\* POST /create_document. The document row is written outside the
\* transaction; the first snapshot row and the first log row carry the
\* S4Vector (0, 0, replica_id, 0) and the empty string. A failed commit is
\* logged and the handler still answers with the document id.
CreateDocument(r, io) ==
    /\ ~created
    /\ created' = TRUE
    /\ LET s4 == S4(0, 0, r, 0) IN
       IF io = "ok"
       THEN /\ snapshot' = (s4 :> Row("", FALSE)) @@ snapshot
            /\ log' = log (+) SetToBag({LogRow(s4, "", FALSE)})
       ELSE UNCHANGED <<snapshot, log>>
    /\ UNCHANGED <<rgas, hung, sns, requests, applied, loaded_from, minted, restarted,
                   publish_failed>>

\* GET /document/<id>, for a document not yet in the replica's map.
FetchDocument(r) ==
    /\ created
    /\ ~hung[r]
    /\ ~Loaded(r)
    /\ rgas' = [rgas EXCEPT ![r] = (DocId :> LoadFromSnapshot(r, snapshot))]
    /\ applied' = [applied EXCEPT ![r] = {}]
    /\ loaded_from' = [loaded_from EXCEPT ![r] = snapshot]
    /\ UNCHANGED <<created, snapshot, log, hung, sns, requests, minted, restarted,
                   publish_failed>>

\* The replica's process ends and starts again: its map of RGAs is empty.
Restart(r) ==
    /\ Loaded(r) \/ hung[r]
    /\ rgas' = [rgas EXCEPT ![r] = <<>>]
    /\ hung' = [hung EXCEPT ![r] = FALSE]
    /\ applied' = [applied EXCEPT ![r] = {}]
    /\ loaded_from' = [loaded_from EXCEPT ![r] = <<>>]
    /\ restarted' = [restarted EXCEPT ![r] = TRUE]
    /\ publish_failed' = [publish_failed EXCEPT ![r] = FALSE]
    /\ mutex' = [mutex EXCEPT ![r] = FALSE]
    /\ pc' = [pc EXCEPT ![r] = [k \in Slots |-> "idle"]]
    /\ seen' = [seen EXCEPT ![r] = [k \in Slots |-> None]]
    /\ UNCHANGED <<created, snapshot, log, sns, requests, minted>>

\* What the engine call of a handler leaves in the replica.
Engine(r, res) ==
    /\ rgas' = [rgas EXCEPT ![r] = (DocId :> res.rga)]
    /\ hung' = [hung EXCEPT ![r] = (res.outcome = "spin")]
    /\ applied' = [applied EXCEPT ![r] =
                      IF res.outcome = "ok"
                      THEN @ \cup {[m |-> Message(res.op, r), early |-> FALSE]}
                      ELSE @]

\* The insert handler with the rows written whatever local_insert returned.
InsertUnchecked(r, value, left, right, io) ==
    /\ Ready(r)
    /\ requests < RequestCap
    /\ requests' = requests + 1
    /\ LET rga == Rga(r)
           res == LocalInsert(rga, value, left, right)
           s4  == S4Generate(left, right, rga.session_id, rga.site_id,
                             rga.local_sequence)
           stored == io = "ok" /\ s4 \notin DOMAIN snapshot
           sent   == /\ res.outcome = "ok" /\ s4 \notin DOMAIN snapshot
                     /\ io \in {"ok", "commit_error"}
       IN /\ Engine(r, res)
          /\ minted' = [minted EXCEPT ![r] = Append(@, s4)]
          /\ log' = IF stored THEN log (+) SetToBag({LogRow(s4, value, FALSE)})
                    ELSE log
          /\ snapshot' = IF stored THEN (s4 :> Row(value, FALSE)) @@ snapshot
                         ELSE snapshot
          /\ sns' = IF sent THEN sns \cup {Message(res.op, r)} ELSE sns
          /\ publish_failed' = [publish_failed EXCEPT ![r] =
                 @ \/ (res.outcome = "ok" /\ s4 \notin DOMAIN snapshot
                                          /\ io = "sns_error")]
    /\ UNCHANGED <<created, loaded_from, restarted>>

\* The insert handler with every statement committed as it runs: the row of
\* operations stays when a later step fails.
InsertAutocommit(r, value, left, right, io) ==
    /\ Ready(r)
    /\ requests < RequestCap
    /\ requests' = requests + 1
    /\ LET rga == Rga(r)
           res == LocalInsert(rga, value, left, right)
           s4  == S4Generate(left, right, rga.session_id, rga.site_id,
                             rga.local_sequence)
           stored == res.outcome = "ok" /\ io = "ok" /\ s4 \notin DOMAIN snapshot
           sent   == /\ res.outcome = "ok" /\ s4 \notin DOMAIN snapshot
                     /\ io \in {"ok", "commit_error"}
       IN /\ Engine(r, res)
          /\ minted' = [minted EXCEPT ![r] = Append(@, s4)]
          /\ log' = IF res.outcome = "ok"
                    THEN log (+) SetToBag({LogRow(s4, value, FALSE)})
                    ELSE log
          /\ snapshot' = IF stored THEN (s4 :> Row(value, FALSE)) @@ snapshot
                         ELSE snapshot
          /\ sns' = IF sent THEN sns \cup {Message(res.op, r)} ELSE sns
          /\ publish_failed' = [publish_failed EXCEPT ![r] =
                 @ \/ (res.outcome = "ok" /\ s4 \notin DOMAIN snapshot
                                          /\ io = "sns_error")]
    /\ UNCHANGED <<created, loaded_from, restarted>>

\* POST /document/<id>/insert: local_insert, then INSERT into operations,
\* INSERT into document_snapshots (no ON CONFLICT: a row with the same key
\* fails the statement), publish, commit. Every early return drops the
\* transaction, which rolls it back.
Insert(r, value, left, right, io) ==
    /\ Ready(r)
    /\ requests < RequestCap
    /\ requests' = requests + 1
    /\ LET rga == Rga(r)
           res == LocalInsert(rga, value, left, right)
           s4  == S4Generate(left, right, rga.session_id, rga.site_id,
                             rga.local_sequence)
           stored == res.outcome = "ok" /\ io = "ok" /\ s4 \notin DOMAIN snapshot
           sent   == /\ res.outcome = "ok" /\ s4 \notin DOMAIN snapshot
                     /\ io \in {"ok", "commit_error"}
       IN /\ Engine(r, res)
          /\ minted' = [minted EXCEPT ![r] = Append(@, s4)]
          /\ log' = IF stored THEN log (+) SetToBag({LogRow(s4, value, FALSE)})
                    ELSE log
          /\ snapshot' = IF stored THEN (s4 :> Row(value, FALSE)) @@ snapshot
                         ELSE snapshot
          /\ sns' = IF sent THEN sns \cup {Message(res.op, r)} ELSE sns
          /\ publish_failed' = [publish_failed EXCEPT ![r] =
                 @ \/ (res.outcome = "ok" /\ s4 \notin DOMAIN snapshot
                                          /\ io = "sns_error")]
    /\ UNCHANGED <<created, loaded_from, restarted>>

\* POST /document/<id>/update: local_update, then INSERT into operations, upsert
\* of document_snapshots with the request's value and tombstone false, commit,
\* publish.
Update(r, s4, value, io) ==
    /\ Ready(r)
    /\ requests < RequestCap
    /\ requests' = requests + 1
    /\ LET res    == LocalUpdate(Rga(r), s4, value)
           stored == res.outcome = "ok" /\ io \in {"ok", "sns_error"}
           sent   == res.outcome = "ok" /\ io = "ok"
       IN /\ Engine(r, res)
          /\ log' = IF stored THEN log (+) SetToBag({LogRow(s4, value, FALSE)})
                    ELSE log
          /\ snapshot' = IF stored
                         THEN [x \in DOMAIN snapshot \cup {s4} |->
                                  IF x = s4 THEN Row(value, FALSE) ELSE snapshot[x]]
                         ELSE snapshot
          /\ sns' = IF sent THEN sns \cup {Message(res.op, r)} ELSE sns
          /\ publish_failed' = [publish_failed EXCEPT ![r] =
                 @ \/ (res.outcome = "ok" /\ io = "sns_error")]
    /\ UNCHANGED <<created, loaded_from, minted, restarted>>

\* POST /document/<id>/delete: local_delete, then INSERT into operations, upsert
\* of document_snapshots with the empty string and tombstone false, commit,
\* publish.
Delete(r, s4, io) ==
    /\ Ready(r)
    /\ requests < RequestCap
    /\ requests' = requests + 1
    /\ LET res    == LocalDelete(Rga(r), s4)
           stored == res.outcome = "ok" /\ io \in {"ok", "sns_error"}
           sent   == res.outcome = "ok" /\ io = "ok"
       IN /\ Engine(r, res)
          /\ log' = IF stored THEN log (+) SetToBag({LogRow(s4, "", FALSE)})
                    ELSE log
          /\ snapshot' = IF stored
                         THEN [x \in DOMAIN snapshot \cup {s4} |->
                                  IF x = s4 THEN Row("", FALSE) ELSE snapshot[x]]
                         ELSE snapshot
          /\ sns' = IF sent THEN sns \cup {Message(res.op, r)} ELSE sns
          /\ publish_failed' = [publish_failed EXCEPT ![r] =
                 @ \/ (res.outcome = "ok" /\ io = "sns_error")]
    /\ UNCHANGED <<created, loaded_from, minted, restarted>>

\* What the three handlers answer: Ok(()), or the ApiError of the first step
\* that fails ("none" when the engine call never returns to the handler).
InsertResponse(r, value, left, right, io) ==
    LET rga == Rga(r)
        res == LocalInsert(rga, value, left, right)
        s4  == S4Generate(left, right, rga.session_id, rga.site_id,
                          rga.local_sequence)
    IN CASE res.outcome = "err" -> "RequestFailed"
         [] res.outcome \in {"panic", "spin"} -> "none"
         [] res.outcome = "ok" ->
                IF s4 \in DOMAIN snapshot \/ io # "ok"
                THEN "DatabaseError" ELSE "Ok"

UpdateResponse(r, s4, value, io) ==
    LET res == LocalUpdate(Rga(r), s4, value)
    IN CASE res.outcome = "err" -> "RequestFailed"
         [] res.outcome \in {"panic", "spin"} -> "none"
         [] res.outcome = "ok" ->
                CASE io = "db_error" -> "RequestFailed"
                  [] io = "sns_error" -> "DatabaseError"
                  [] io = "ok" -> "Ok"

DeleteResponse(r, s4, io) ==
    LET res == LocalDelete(Rga(r), s4)
    IN CASE res.outcome = "err" -> "RequestFailed"
         [] res.outcome \in {"panic", "spin"} -> "none"
         [] res.outcome = "ok" ->
                IF io = "ok" THEN "Ok" ELSE "DatabaseError"

\* Whether a remote operation arrives before the node it depends on: the
\* target of an update or delete, the left anchor of an insert.
Early(rga, op) ==
    IF op.operation = "Insert"
    THEN op.left # None /\ op.left \notin DOMAIN rga.hash_map
    ELSE op.s4vector \notin DOMAIN rga.hash_map

\* POST /sns: a published message reaches a replica other than its publisher,
\* any number of times and in any order. A panic of the engine call unwinds
\* the handler and leaves the RGA as it was.
HandleSnsNotification(r, m) ==
    /\ Ready(r)
    /\ m \in sns
    /\ m.publisher # r
    /\ LET res == RemoteApply(Rga(r), m.op) IN
       /\ rgas' = [rgas EXCEPT ![r] = (DocId :> res.rga)]
       /\ hung' = [hung EXCEPT ![r] = (res.outcome = "spin")]
       /\ applied' = [applied EXCEPT ![r] =
                         IF res.outcome = "spin" THEN @
                         ELSE @ \cup {[m |-> m, early |-> Early(Rga(r), m.op)]}]
    /\ UNCHANGED <<created, snapshot, log, sns, requests, loaded_from, minted,
                   restarted, publish_failed>>

Anchors == KnownIds \cup {None}

\* A handler runs from rgas.lock().await to its return as one step: the
\* slots and the mutex are as they were before it.
Atomic == UNCHANGED <<mutex, pc, seen>>

\* A step of the replica service leaves the load balancer as it is.
Direct == UNCHANGED <<ring, lamport_timestamp, exchanges>>

\* The request of the step passes the checks the handlers make of its id,
\* value and target.
Accepted == UNCHANGED rejected

Next ==
    \/ \E r \in Replicas, io \in {"ok", "commit_error"} :
          CreateDocument(r, io) /\ Atomic /\ Direct /\ Accepted
    \/ \E r \in Replicas : FetchDocument(r) /\ Atomic /\ Direct /\ Accepted
    \/ \E r \in Replicas : Restart(r) /\ Direct /\ Accepted
    \/ \E r \in Replicas, value \in Values, left \in Anchors, right \in Anchors,
          io \in {"ok", "db_error", "sns_error", "commit_error"} :
          /\ requests < MaxRequests
          /\ Insert(r, value, left, right, io) /\ Atomic /\ Direct /\ Accepted
    \/ \E r \in Replicas, s4 \in KnownIds, value \in Values,
          io \in {"ok", "db_error", "sns_error"} :
          /\ requests < MaxRequests
          /\ Update(r, s4, value, io) /\ Atomic /\ Direct /\ Accepted
    \/ \E r \in Replicas, s4 \in KnownIds,
          io \in {"ok", "db_error", "sns_error"} :
          /\ requests < MaxRequests
          /\ Delete(r, s4, io) /\ Atomic /\ Direct /\ Accepted
    \/ \E r \in Replicas, m \in sns :
          HandleSnsNotification(r, m) /\ Atomic /\ Direct /\ Accepted

Spec == Init /\ [][Next]_vars

\* ------------------------------------------------ the rgas mutex, step by step
\* The same handlers with the taking of the rgas mutex as a step of its own:
\* a request takes a slot when rgas.lock().await returns, and the slot is free
\* again when the handler returns and its guard is dropped.

\* rgas.lock().await with the mutex taken whether it is free or not.
LockNoWait(r, k) ==
    /\ pc[r][k] = "idle"
    /\ mutex' = [mutex EXCEPT ![r] = TRUE]
    /\ pc' = [pc EXCEPT ![r][k] = "locked"]
    /\ seen' = [seen EXCEPT ![r][k] = rgas[r]]
    /\ UNCHANGED <<created, snapshot, log, rgas, hung, sns, requests,
                   applied, loaded_from, minted, restarted, publish_failed>>
    /\ Direct /\ Accepted

\* `let mut rgas = rgas.lock().await;`: the first statement of fetch_document,
\* insert, update, delete and handle_sns_notification after the id is parsed.
Lock(r, k) ==
    /\ pc[r][k] = "idle"
    /\ ~mutex[r]
    /\ mutex' = [mutex EXCEPT ![r] = TRUE]
    /\ pc' = [pc EXCEPT ![r][k] = "locked"]
    /\ seen' = [seen EXCEPT ![r][k] = rgas[r]]
    /\ UNCHANGED <<created, snapshot, log, rgas, hung, sns, requests,
                   applied, loaded_from, minted, restarted, publish_failed>>
    /\ Direct /\ Accepted

\* The handler of slot k returns and its guard is dropped; a handler that
\* spins for ever keeps the guard.
Return(r, k) ==
    /\ pc[r][k] = "locked"
    /\ mutex' = [mutex EXCEPT ![r] = hung'[r]]
    /\ pc' = [pc EXCEPT ![r][k] = IF hung'[r] THEN "locked" ELSE "idle"]
    /\ seen' = [seen EXCEPT ![r][k] = IF hung'[r] THEN rgas'[r] ELSE None]

\* A handler that returns before it calls the engine: the document is not in
\* the map, the request carries no value, or fetch_document finds it loaded.
EarlyReturn(r, k) ==
    /\ ~hung[r]
    /\ UNCHANGED <<created, snapshot, log, rgas, hung, sns, requests,
                   applied, loaded_from, minted, restarted, publish_failed>>
    /\ Direct /\ Accepted
    /\ Return(r, k)

LockNext ==
    \/ \E r \in Replicas, io \in {"ok", "commit_error"} :
          CreateDocument(r, io) /\ Atomic /\ Direct /\ Accepted
    \/ \E r \in Replicas, k \in Slots : Lock(r, k)
    \/ \E r \in Replicas, k \in Slots : EarlyReturn(r, k)
    \/ \E r \in Replicas, k \in Slots : FetchDocument(r) /\ Return(r, k) /\ Direct /\ Accepted
    \/ \E r \in Replicas : Restart(r) /\ Direct /\ Accepted
    \/ \E r \in Replicas, k \in Slots, value \in Values,
          left \in Anchors, right \in Anchors,
          io \in {"ok", "db_error", "sns_error", "commit_error"} :
          /\ requests < MaxLockRequests
          /\ Insert(r, value, left, right, io)
          /\ Return(r, k) /\ Direct /\ Accepted
    \/ \E r \in Replicas, k \in Slots, s4 \in KnownIds, value \in Values,
          io \in {"ok", "db_error", "sns_error"} :
          /\ requests < MaxLockRequests
          /\ Update(r, s4, value, io)
          /\ Return(r, k) /\ Direct /\ Accepted
    \/ \E r \in Replicas, k \in Slots, s4 \in KnownIds,
          io \in {"ok", "db_error", "sns_error"} :
          /\ requests < MaxLockRequests
          /\ Delete(r, s4, io)
          /\ Return(r, k) /\ Direct /\ Accepted
    \/ \E r \in Replicas, k \in Slots, m \in sns :
          HandleSnsNotification(r, m) /\ Return(r, k) /\ Direct /\ Accepted

SpecLock == Init /\ [][LockNext]_vars

\* ------------------------------------------------------ the load balancer
\* Requests the proxy serves in the behaviours of the load balancer.
MaxProxyRequests == 2
\* The node addresses a ring can hold, by their hashes, and the hashes of the
\* client addresses (DefaultHasher values, reduced to their order).
Nodes == (1 :> "node-a") @@ (3 :> "node-b")
NodeHashes == DOMAIN Nodes
ClientHashes == {0, 2, 4}

\* LoadBalancer::new: one ring entry per address given, time zero. Any list of
\* addresses can be given, the empty one too. The replicas are as main built
\* them and take no step.
ProxyInit ==
    /\ InitReplicas
    /\ ring \in {[h \in hs |-> Nodes[h]] : hs \in SUBSET NodeHashes}
    /\ lamport_timestamp = 0
    /\ exchanges = <<>>

\* get_node: the first ring entry at or after the key, else the first entry
\* of the ring, else nothing.
GetNode(key) ==
    LET after == {h \in DOMAIN ring : h >= key} IN
    IF DOMAIN ring = {} THEN Null
    ELSE IF after # {}
         THEN ring[CHOOSE h \in after : \A g \in after : h <= g]
         ELSE ring[CHOOSE h \in DOMAIN ring : \A g \in DOMAIN ring : h <= g]

\* What distribute met and did for one request: the answer of the rate
\* limiter, the node selected, whether the connection to the node was made,
\* how much of the request was written to the node ("none", "part" when
\* write_all failed, "all"), and the response sent to the client ("upstream" =
\* the bytes the node answered).
Exchange(limiter, node, connected, forwarded, response) ==
    [limiter |-> limiter, node |-> node, connected |-> connected,
     forwarded |-> forwarded, response |-> response]

\* distribute with the request sent on to the node whatever the rate limiter
\* answered.
DistributeUnlimited(key, limiter, serialized, upstream) ==
    /\ Len(exchanges) < MaxProxyRequests
    /\ LET node == GetNode(key) IN
       IF node = Null
       THEN /\ exchanges' = Append(exchanges, Exchange(limiter, Null, FALSE, "none", "500"))
            /\ UNCHANGED lamport_timestamp
       ELSE /\ lamport_timestamp' = lamport_timestamp + 1
            /\ exchanges' = Append(exchanges,
                   CASE ~serialized -> Exchange(limiter, node, FALSE, "none", "500")
                     [] serialized /\ upstream = "refused" ->
                            Exchange(limiter, node, FALSE, "none", "500")
                     [] serialized /\ upstream = "write_error" ->
                            Exchange(limiter, node, TRUE, "part", "500")
                     [] serialized /\ upstream = "read_error" ->
                            Exchange(limiter, node, TRUE, "all", "500")
                     [] serialized /\ upstream = "answered" ->
                            Exchange(limiter, node, TRUE, "all", "upstream"))
    /\ UNCHANGED <<created, snapshot, log, rgas, hung, sns, requests,
                   applied, loaded_from, minted, restarted, publish_failed,
                   mutex, pc, seen, ring, rejected>>

\* reverse_proxy for one request: distribute under the lock of the state, and
\* its bytes written to the client. distribute asks the rate limiter first
\* (connect, then check_request under a timeout), selects the node by the
\* hash of the client address, advances the time, serializes the request,
\* connects to the node, writes the request and reads the answer.
Distribute(key, limiter, serialized, upstream) ==
    /\ Len(exchanges) < MaxProxyRequests
    /\ LET node == GetNode(key) IN
       IF limiter \in {"unreachable", "error", "timeout"}
       THEN /\ exchanges' = Append(exchanges, Exchange(limiter, Null, FALSE, "none", "500"))
            /\ UNCHANGED lamport_timestamp
       ELSE IF limiter = "denied"
       THEN /\ exchanges' = Append(exchanges, Exchange(limiter, Null, FALSE, "none", "429"))
            /\ UNCHANGED lamport_timestamp
       ELSE IF node = Null
       THEN /\ exchanges' = Append(exchanges, Exchange(limiter, Null, FALSE, "none", "500"))
            /\ UNCHANGED lamport_timestamp
       ELSE /\ lamport_timestamp' = lamport_timestamp + 1
            /\ exchanges' = Append(exchanges,
                   CASE ~serialized -> Exchange(limiter, node, FALSE, "none", "500")
                     [] serialized /\ upstream = "refused" ->
                            Exchange(limiter, node, FALSE, "none", "500")
                     [] serialized /\ upstream = "write_error" ->
                            Exchange(limiter, node, TRUE, "part", "500")
                     [] serialized /\ upstream = "read_error" ->
                            Exchange(limiter, node, TRUE, "all", "500")
                     [] serialized /\ upstream = "answered" ->
                            Exchange(limiter, node, TRUE, "all", "upstream"))
    /\ UNCHANGED <<created, snapshot, log, rgas, hung, sns, requests,
                   applied, loaded_from, minted, restarted, publish_failed,
                   mutex, pc, seen, ring, rejected>>

\* What the rate limiter and the node can do to a request.
LimiterAnswers == {"unreachable", "error", "timeout", "denied", "allowed"}
NodeAnswers == {"refused", "write_error", "read_error", "answered"}

ProxyNext ==
    \E key \in ClientHashes, limiter \in LimiterAnswers,
       serialized \in BOOLEAN, upstream \in NodeAnswers :
        Distribute(key, limiter, serialized, upstream)

SpecProxy == ProxyInit /\ [][ProxyNext]_vars

\* ------------------------------------------------- every I/O succeeding
\* The handlers with the store and the topic answering every call, no restart,
\* and up to RequestCap local requests.
DeepNext ==
    \/ \E r \in Replicas : CreateDocument(r, "ok") /\ Atomic /\ Direct /\ Accepted
    \/ \E r \in Replicas : FetchDocument(r) /\ Atomic /\ Direct /\ Accepted
    \/ \E r \in Replicas, left \in Anchors, right \in Anchors :
          Insert(r, "A", left, right, "ok") /\ Atomic /\ Direct /\ Accepted
    \/ \E r \in Replicas, s4 \in KnownIds :
          Update(r, s4, "B", "ok") /\ Atomic /\ Direct /\ Accepted
    \/ \E r \in Replicas, s4 \in KnownIds :
          Delete(r, s4, "ok") /\ Atomic /\ Direct /\ Accepted
    \/ \E r \in Replicas, m \in sns :
          HandleSnsNotification(r, m) /\ Atomic /\ Direct /\ Accepted

SpecDeep == Init /\ [][DeepNext]_vars

\* ------------------------------------------------------ invalid requests
\* The requests the handlers refuse for their form: a document id that is no
\* UUID, an insert or update without a value, an update or delete without
\* s4vector, a broadcast message with an operation tag that is none of
\* Insert, Update, Delete, or an Insert or Update message without a value.
InvalidKinds ==
    {"bad_id", "insert_no_value", "update_no_value", "update_no_target",
     "delete_no_target", "sns_unknown_tag", "sns_no_value"}

\* What the handler does with such a request: the ApiError it returns, or
\* "panic" when it unwinds on the unwrap() of a field that is None.
InvalidAnswer(r, kind) ==
    CASE kind = "bad_id" -> "RequestFailed"
      [] kind # "bad_id" /\ ~Loaded(r) -> "RequestFailed"
      [] Loaded(r) /\ kind \in {"insert_no_value", "update_no_value"} ->
             "RequestFailed"
      [] Loaded(r) /\ kind \in {"update_no_target", "delete_no_target"} -> "panic"
      [] Loaded(r) /\ kind = "sns_unknown_tag" -> "RequestFailed"
      [] Loaded(r) /\ kind = "sns_no_value" -> "panic"

\* A request of one of these kinds is served by replica r. Every one of them
\* ends before the engine, the store or the topic is touched.
InvalidRequest(r, kind) ==
    /\ ~hung[r]
    /\ rejected' = [rejected EXCEPT ![r] =
                       [kind |-> kind, answer |-> InvalidAnswer(r, kind)]]
    /\ UNCHANGED <<created, snapshot, log, rgas, hung, sns, requests,
                   applied, loaded_from, minted, restarted, publish_failed>>

\* Valid requests served in the behaviours with invalid ones.
MaxValidRequests == 1

InvalidNext ==
    \/ \E r \in Replicas : CreateDocument(r, "ok") /\ Atomic /\ Direct /\ Accepted
    \/ \E r \in Replicas : FetchDocument(r) /\ Atomic /\ Direct /\ Accepted
    \/ \E r \in Replicas, left \in Anchors, right \in Anchors :
          /\ requests < MaxValidRequests
          /\ Insert(r, "A", left, right, "ok") /\ Atomic /\ Direct /\ Accepted
    \/ \E r \in Replicas, m \in sns :
          HandleSnsNotification(r, m) /\ Atomic /\ Direct /\ Accepted
    \/ \E r \in Replicas, kind \in InvalidKinds :
          InvalidRequest(r, kind) /\ Atomic /\ Direct

SpecInvalid == Init /\ [][InvalidNext]_vars

\* ----------------------------------------------------------------- claims
HashMap(r) == Rga(r).hash_map

\* The operations a replica's RGA has been given since its activation.
AppliedOps(r) == {e.m : e \in applied[r]}

\* C1. Convergence: two replicas activated from the same snapshot rows that
\* have since been given the same set of operations (their own through the
\* local operation, the others' through the remote one, in any order) read
\* the same sequence.
C1_Convergence ==
    \A r1, r2 \in Replicas :
        ( /\ Ready(r1) /\ Ready(r2)
          /\ loaded_from[r1] = loaded_from[r2]
          /\ AppliedOps(r1) = AppliedOps(r2) )
        => Read(Rga(r1)) = Read(Rga(r2))

\* C2. Idempotence of remote apply: in every reachable state, for every
\* published operation, giving it to a replica's RGA twice leaves the RGA that
\* giving it once leaves.
C2_Idempotent ==
    \A r \in Replicas : \A m \in sns :
        (Ready(r) /\ m.publisher # r) =>
            LET once  == RemoteApply(Rga(r), m.op)
                twice == RemoteApply(once.rga, m.op)
            IN once.outcome = "ok" =>
                   twice.outcome = "ok" /\ twice.rga = once.rga

\* C3. List well-formedness (I2): the walk from head along the successor
\* links visits every node of hash_map exactly once and meets no cycle.
WellFormed(rga) ==
    LET t == Traversal(rga) IN
    /\ {t[i] : i \in 1..Len(t)} = DOMAIN rga.hash_map
    /\ ~ReadSpins(rga)

C3_WellFormed == \A r \in Replicas : Ready(r) => WellFormed(Rga(r))

\* C4. Causal safety: a node that the walk from head visits and that names a
\* left anchor has that anchor among the keys of hash_map.
C4_CausalSafety ==
    \A r \in Replicas :
        Ready(r) =>
            LET t == Traversal(Rga(r)) IN
            \A i \in 1..Len(t) :
                HashMap(r)[t[i]].left # None =>
                    HashMap(r)[t[i]].left \in DOMAIN HashMap(r)

\* C5. Tombstone monotonicity: no step of a replica that keeps the document
\* in memory takes a node's tombstone from true to false.
C5_TombstoneMonotone ==
    [][\A r \in Replicas :
          (Loaded(r) /\ Loaded(r)') =>
              \A id \in DOMAIN HashMap(r) :
                  HashMap(r)[id].tombstone =>
                      /\ id \in DOMAIN HashMap(r)'
                      /\ HashMap(r)'[id].tombstone]_vars

\* C6. Out-of-order remote delivery: a remote delete that reached a replica
\* before the insert of its target is not lost; once the target is a key of
\* hash_map it is tombstoned (delete(A) then insert(A) reads []).
C6_OutOfOrder ==
    \A r \in Replicas :
        Ready(r) =>
            \A e \in applied[r] :
                ( /\ e.early
                  /\ e.m.op.operation = "Delete"
                  /\ e.m.op.s4vector \in DOMAIN HashMap(r) )
                => HashMap(r)[e.m.op.s4vector].tombstone

\* The store holds what the replica holds: the same keys, every live node's
\* value, and a deleted node's row as the delete handler writes it.
Persisted(r) ==
    /\ Rga(r).buffer = <<>>
    /\ DOMAIN snapshot = DOMAIN HashMap(r)
    /\ \A id \in DOMAIN snapshot :
          IF HashMap(r)[id].tombstone THEN snapshot[id].value = ""
          ELSE snapshot[id].value = HashMap(r)[id].value

\* C7. Snapshot round-trip: activating the document again from the persisted
\* snapshot of a replica's state gives an RGA that reads what the replica reads.
C7_SnapshotRoundTrip ==
    \A r \in Replicas :
        (Ready(r) /\ Persisted(r)) =>
            Read(LoadFromSnapshot(r, snapshot)) = Read(Rga(r))

\* C8. S4 uniqueness: the vectors a replica mints carry strictly increasing
\* seq in generation order (they share ssn and sid), and no vector is minted
\* twice, by one replica or by two.
C8_S4Unique ==
    /\ \A r \in Replicas : \A i, j \in 1..Len(minted[r]) :
          i < j => /\ minted[r][i] # minted[r][j]
                   /\ minted[r][i][4] < minted[r][j][4]
    /\ \A r1, r2 \in Replicas : \A i \in 1..Len(minted[r1]), j \in 1..Len(minted[r2]) :
          r1 # r2 => minted[r1][i] # minted[r2][j]

LogIds == {row.s4vector : row \in BagToSet(log)}

\* C9. Sequence reuse across restarts: a vector minted by a replica that has
\* been restarted is no key of its hash_map and no key of the snapshot or log.
C9_NoReuseAfterRestart ==
    [][\A r \in Replicas :
          (restarted[r] /\ Len(minted[r]') > Len(minted[r])) =>
              minted[r]'[Len(minted[r]')] \notin
                  (DOMAIN HashMap(r) \cup DOMAIN snapshot \cup LogIds)]_vars

\* C10. No dangling successor (I1): a node's non-empty successor link names a
\* key of hash_map.
C10_NoDangling ==
    \A r \in Replicas :
        Ready(r) =>
            \A id \in DOMAIN HashMap(r) :
                HashMap(r)[id].right # None =>
                    HashMap(r)[id].right \in DOMAIN HashMap(r)


\* The place of id x in the sequence of ids t.
Position(t, x) == CHOOSE i \in 1..Len(t) : t[i] = x

\* C11. Sibling order (I3): of two nodes with the same left anchor that the
\* walk from head visits, the one with the greater S4Vector is visited first.
C11_SiblingOrder ==
    \A r \in Replicas :
        Ready(r) =>
            LET t   == Traversal(Rga(r))
                ids == {t[i] : i \in 1..Len(t)}
            IN \A a \in ids, b \in ids :
                   (/\ HashMap(r)[a].left # None
                    /\ HashMap(r)[a].left = HashMap(r)[b].left
                    /\ S4Greater(a, b))
                       => Position(t, a) < Position(t, b)

\* C12. Committed xor buffered (I4): the left anchor of every node of hash_map
\* is a key of hash_map, and no insert waits in the buffer while a node with
\* its S4Vector is in hash_map.
C12_CommittedXorBuffered ==
    \A r \in Replicas :
        Ready(r) =>
            /\ \A n \in DOMAIN HashMap(r) :
                   HashMap(r)[n].left # None => HashMap(r)[n].left \in DOMAIN HashMap(r)
            /\ \A i \in 1..Len(Rga(r).buffer) :
                   Rga(r).buffer[i].operation = "Insert"
                       => Rga(r).buffer[i].s4vector \notin DOMAIN HashMap(r)

\* An anchor that is named and is no key of the replica's hash_map.
Missing(r, anchor) == anchor # None /\ anchor \notin DOMAIN HashMap(r)

\* C13. local_insert with a missing anchor: an insert request that names a left
\* or a right anchor that is no key of hash_map gets the error, adds one entry
\* to the buffer and leaves head and hash_map as they were.
C13_InsertMissingAnchor ==
    [][\A r \in Replicas, left \in Anchors, right \in Anchors :
          (Ready(r) /\ (Missing(r, left) \/ Missing(r, right))) =>
              \A value \in Values,
                 io \in {"ok", "db_error", "sns_error", "commit_error"} :
                  Insert(r, value, left, right, io) =>
                      /\ LocalInsert(Rga(r), value, left, right).outcome = "err"
                      /\ HashMap(r)' = HashMap(r)
                      /\ Rga(r)'.head = Rga(r).head
                      /\ Len(Rga(r)'.buffer) = Len(Rga(r).buffer) + 1]_vars
\* The buffer of replica r with one more entry.
Buffered(r, op) == Rga(r)'.buffer = Append(Rga(r).buffer, op)

\* C14. local_update / local_delete on a missing target: an update or delete
\* request whose target is no key of hash_map gets the error, appends its
\* operation to the end of the buffer, and leaves head and hash_map (so every
\* node's value and tombstone) as they were.
C14_MissingTarget ==
    [][\A r \in Replicas, s4 \in KnownIds :
          (Ready(r) /\ Missing(r, s4)) =>
              /\ \A io \in {"ok", "db_error", "sns_error"} :
                     Delete(r, s4, io) =>
                         /\ LocalDelete(Rga(r), s4).outcome = "err"
                         /\ Buffered(r, Operation("Delete", s4, Null, None, None))
                         /\ HashMap(r)' = HashMap(r)
                         /\ Rga(r)'.head = Rga(r).head
              /\ \A value \in Values, io \in {"ok", "db_error", "sns_error"} :
                     Update(r, s4, value, io) =>
                         /\ LocalUpdate(Rga(r), s4, value).outcome = "err"
                         /\ Buffered(r, Operation("Update", s4, value, None, None))
                         /\ HashMap(r)' = HashMap(r)
                         /\ Rga(r)'.head = Rga(r).head]_vars

\* A replica holds a buffered update or delete whose target it does not have.
C14_Witness ==
    \E r \in Replicas :
        /\ Ready(r)
        /\ \E i \in 1..Len(Rga(r).buffer) :
               /\ Rga(r).buffer[i].operation \in {"Update", "Delete"}
               /\ Rga(r).buffer[i].s4vector \notin DOMAIN HashMap(r)

C16_PublishBeforeCommit ==
    [][\A r \in Replicas :
          (Ready(r) /\ log' # log) =>
              /\ \A value \in Values, left \in Anchors, right \in Anchors,
                    io \in {"ok", "db_error", "sns_error", "commit_error"} :
                     Insert(r, value, left, right, io) =>
                         Message(LocalInsert(Rga(r), value, left, right).op, r) \in sns'
              /\ \A s4 \in KnownIds, value \in Values,
                    io \in {"ok", "db_error", "sns_error"} :
                     Update(r, s4, value, io) =>
                         Message(LocalUpdate(Rga(r), s4, value).op, r) \in sns'
              /\ \A s4 \in KnownIds, io \in {"ok", "db_error", "sns_error"} :
                     Delete(r, s4, io) =>
                         Message(LocalDelete(Rga(r), s4).op, r) \in sns']_vars

\* C17. Publish failure: once a publish of a replica has failed, no later
\* local request changes that replica's RGA (the document is degraded and its
\* writes are rejected).
C17_DegradedAfterPublishFailure ==
    [][\A r \in Replicas :
          (publish_failed[r] /\ Loaded(r) /\ requests' # requests)
              => rgas'[r] = rgas[r]]_vars

\* C18. Snapshot is the latest-value projection: after a committed local
\* insert, update or delete the row of the node holds the value and the
\* tombstone flag the node has in the RGA of the replica that served it.
C18_SnapshotProjection ==
    [][\A r \in Replicas :
          (Ready(r) /\ log' # log) =>
              /\ \A s4 \in KnownIds, io \in {"ok", "db_error", "sns_error"} :
                     Delete(r, s4, io) =>
                         snapshot'[s4] = Row(HashMap(r)'[s4].value,
                                             HashMap(r)'[s4].tombstone)
              /\ \A s4 \in KnownIds, value \in Values,
                    io \in {"ok", "db_error", "sns_error"} :
                     Update(r, s4, value, io) =>
                         snapshot'[s4] = Row(HashMap(r)'[s4].value,
                                             HashMap(r)'[s4].tombstone)]_vars

\* C19. Remote operation persistence: after a replica has applied a delivered
\* operation, the snapshot and the log have a row for the operation's id.
C19_RemotePersisted ==
    [][\A r \in Replicas, m \in sns :
          (HandleSnsNotification(r, m) /\ RemoteApply(Rga(r), m.op).outcome = "ok")
              => /\ m.op.s4vector \in DOMAIN snapshot'
                 /\ m.op.s4vector \in LogIds']_vars

\* C20. Mutual exclusion: at most one request slot of a replica is past
\* rgas.lock().await at any time, the mutex is locked exactly while one is,
\* and the map of RGAs is still what the slot found when it took the lock.
C20_MutualExclusion ==
    \A r \in Replicas :
        /\ Cardinality({k \in Slots : pc[r][k] = "locked"}) <= 1
        /\ mutex[r] <=> \E k \in Slots : pc[r][k] = "locked"
        /\ \A k \in Slots : pc[r][k] = "locked" => seen[r][k] = rgas[r]

\* A slot holds the lock of a replica whose RGA a request has already changed,
\* while the other slot is idle.
C20_Witness ==
    \E r \in Replicas, k \in Slots :
        /\ pc[r][k] = "locked"
        /\ \A j \in Slots \ {k} : pc[r][j] = "idle"
        /\ Loaded(r)
        /\ Rga(r).local_sequence > 0

\* C21. Cross-document parallelism: a request on one document does not exclude
\* a request on another. rgas.lock().await precedes the lookup of the document
\* in every handler, so the request waiting in slot j may name any document,
\* and one that is not the document of the request holding slot k: whenever a
\* request is between lock acquisition and release, the lock acquisition of
\* another request of the same replica can still take place.
C21_CrossDocumentParallelism ==
    \A r \in Replicas, k \in Slots, j \in Slots :
        (k # j /\ pc[r][k] = "locked" /\ pc[r][j] = "idle") => ENABLED Lock(r, j)

\* C22. Document activation: the first touch of the document by a request
\* loads it from its snapshot before the operation is processed, so that no
\* operation is lost because the document was not yet in memory: a published
\* operation that reaches a replica whose handlers answer is processed there,
\* whether or not the replica has fetched the document before, and every RGA
\* in memory was loaded from the snapshot.
C22_DocumentActivation ==
    /\ \A r \in Replicas :
           Loaded(r) => DOMAIN loaded_from[r] \subseteq DOMAIN snapshot
    /\ \A r \in Replicas, m \in sns :
           (created /\ ~hung[r] /\ m.publisher # r)
               => ENABLED HandleSnsNotification(r, m)

\* The answers that are errors.
Errors == {"RequestFailed", "DatabaseError"}

\* C23. Database fault during a local operation: when a persistence step
\* (the log append, the snapshot write or the commit) fails after the engine
\* has applied the operation, the transaction is rolled back, so neither the
\* log row nor the snapshot row of the operation persists, the mutation stays
\* in memory, and the caller is answered with an error.
C23_DatabaseFault ==
    [][\A r \in Replicas :
          (Ready(r) /\ requests' = requests + 1) =>
              /\ \A left \in Anchors, right \in Anchors :
                     LET s4 == S4Generate(left, right, Rga(r).session_id,
                                          Rga(r).site_id, Rga(r).local_sequence)
                     IN minted'[r] = Append(minted[r], s4) =>
                        \A value \in Values,
                           io \in {"ok", "db_error", "sns_error", "commit_error"} :
                            (/\ io \in {"db_error", "commit_error"}
                                \/ s4 \in DOMAIN snapshot
                             /\ Insert(r, value, left, right, io)
                             /\ LocalInsert(Rga(r), value, left, right).outcome = "ok")
                                => /\ UNCHANGED <<log, snapshot>>
                                   /\ Rga(r)' = LocalInsert(Rga(r), value, left, right).rga
                                   /\ s4 \in DOMAIN HashMap(r)'
                                   /\ HashMap(r)'[s4].value = value
                                   /\ InsertResponse(r, value, left, right, io) \in Errors
              /\ \A s4 \in DOMAIN HashMap(r), value \in Values :
                     (/\ minted' = minted
                      /\ Update(r, s4, value, "db_error")
                      /\ LocalUpdate(Rga(r), s4, value).outcome = "ok")
                         => /\ UNCHANGED <<log, snapshot>>
                            /\ Rga(r)' = LocalUpdate(Rga(r), s4, value).rga
                            /\ HashMap(r)[s4].tombstone \/ HashMap(r)'[s4].value = value
                            /\ UpdateResponse(r, s4, value, "db_error") \in Errors
              /\ \A s4 \in DOMAIN HashMap(r) :
                     (/\ minted' = minted
                      /\ Delete(r, s4, "db_error")
                      /\ LocalDelete(Rga(r), s4).outcome = "ok")
                         => /\ UNCHANGED <<log, snapshot>>
                            /\ Rga(r)' = LocalDelete(Rga(r), s4).rga
                            /\ HashMap(r)'[s4].tombstone
                            /\ DeleteResponse(r, s4, "db_error") \in Errors]_vars

\* A replica holds a node it minted in this run of its process and published
\* nowhere, none of its publishes failed, and the store has no row of the node:
\* the insert was applied in memory and its transaction was rolled back.
C23_Witness ==
    \E r \in Replicas :
        /\ Ready(r)
        /\ ~restarted[r]
        /\ ~publish_failed[r]
        /\ \E i \in 1..Len(minted[r]) :
               /\ minted[r][i] \in DOMAIN HashMap(r)
               /\ minted[r][i] \notin DOMAIN snapshot
               /\ minted[r][i] \notin LogIds
               /\ minted[r][i] \notin {m.op.s4vector : m \in sns}

\* C24. read() returns the live sequence: for every RGA state of a replica
\* that answers, read() returns, and what it returns is the values of the
\* nodes that are not tombstoned, in the order of the traversal from head; a
\* tombstoned node is left out and the nodes after it are kept.
C24_ReadLiveSequence ==
    \A r \in Replicas :
        Ready(r) =>
            /\ ~ReadSpins(Rga(r))
            /\ LET t == Traversal(Rga(r)) IN
               \A i \in 1..Len(t) :
                   HashMap(r)[t[i]].tombstone
                       => Read(Rga(r)) =
                              LiveValues(HashMap(r), SubSeq(t, 1, i - 1)) \o
                              LiveValues(HashMap(r), SubSeq(t, i + 1, Len(t)))

\* The nodes of the replica other than the target are, after the step, what
\* they were before it: same value, same tombstone.
OthersKept(r, s4) ==
    \A x \in DOMAIN HashMap(r) \ {s4} :
        /\ x \in DOMAIN HashMap(r)'
        /\ HashMap(r)'[x].value = HashMap(r)[x].value
        /\ HashMap(r)'[x].tombstone = HashMap(r)[x].tombstone

\* C25. local_update effect: an update of a node present in by_id succeeds;
\* the value of a node that is not tombstoned becomes the value given, the
\* value of a tombstoned node stays; no other node's value or tombstone
\* changes.
C25_LocalUpdateEffect ==
    [][\A r \in Replicas :
          (Ready(r) /\ requests' = requests + 1 /\ minted' = minted) =>
              \A s4 \in DOMAIN HashMap(r), value \in Values,
                 io \in {"ok", "db_error", "sns_error"} :
                  Update(r, s4, value, io) =>
                      /\ LocalUpdate(Rga(r), s4, value).outcome = "ok"
                      /\ HashMap(r)'[s4].value =
                             IF HashMap(r)[s4].tombstone
                             THEN HashMap(r)[s4].value ELSE value
                      /\ HashMap(r)'[s4].tombstone = HashMap(r)[s4].tombstone
                      /\ OthersKept(r, s4)]_vars

\* C26. local_delete effect: a delete of a node present in by_id succeeds,
\* sets the tombstone of the node, keeps the node in by_id and in the list
\* with its value, and changes no other node.
C26_LocalDeleteEffect ==
    [][\A r \in Replicas :
          (Ready(r) /\ requests' = requests + 1 /\ minted' = minted) =>
              \A s4 \in DOMAIN HashMap(r), io \in {"ok", "db_error", "sns_error"} :
                  Delete(r, s4, io) =>
                      /\ LocalDelete(Rga(r), s4).outcome = "ok"
                      /\ s4 \in DOMAIN HashMap(r)'
                      /\ HashMap(r)'[s4] = [HashMap(r)[s4] EXCEPT !.tombstone = TRUE]
                      /\ Rga(r)'.head = Rga(r).head
                      /\ OthersKept(r, s4)
                      /\ \A x \in DOMAIN HashMap(r) :
                             HashMap(r)'[x].right = HashMap(r)[x].right]_vars

\* C27. local_insert success effect: an insert whose named anchors are all
\* present (or that names none) returns a descriptor, adds exactly one new key
\* to by_id, the S4Vector just minted, with the given value and tombstone
\* false, removes no key, and advances the sequence counter.
C27_LocalInsertEffect ==
    [][\A r \in Replicas, left \in Anchors, right \in Anchors :
          (/\ Ready(r)
           /\ ~Missing(r, left)
           /\ ~Missing(r, right)) =>
              \A value \in Values,
                 io \in {"ok", "db_error", "sns_error", "commit_error"} :
                  Insert(r, value, left, right, io) =>
                      LET res == LocalInsert(Rga(r), value, left, right)
                          s4  == minted'[r][Len(minted'[r])]
                      IN /\ res.outcome = "ok"
                         /\ res.op.s4vector = s4
                         /\ s4 \notin DOMAIN HashMap(r)
                         /\ DOMAIN HashMap(r)' = DOMAIN HashMap(r) \cup {s4}
                         /\ HashMap(r)'[s4].value = value
                         /\ HashMap(r)'[s4].tombstone = FALSE
                         /\ Rga(r)'.local_sequence = Rga(r).local_sequence + 1]_vars

\* C28. Proxy rate-limit outcomes: a request is sent on to a node only if the
\* rate limiter answered allowed = true; when it answers allowed = false the
\* client gets 429 and nothing is sent on; when the limiter is unreachable,
\* errors or times out, or no node is selected or the node cannot be reached,
\* the client gets 500 and nothing is sent on.
C28_ProxyRateLimit ==
    \A i \in 1..Len(exchanges) :
        LET e == exchanges[i] IN
        /\ e.forwarded # "none" => e.limiter = "allowed"
        /\ e.response = "upstream" => e.limiter = "allowed"
        /\ e.limiter = "denied" => (e.response = "429" /\ e.forwarded = "none")
        /\ e.limiter \in {"unreachable", "error", "timeout"}
               => (e.response = "500" /\ e.forwarded = "none")
        /\ (e.limiter = "allowed" /\ (e.node = Null \/ ~e.connected))
               => (e.response = "500" /\ e.forwarded = "none")
        /\ e.response = "429" => e.limiter = "denied"

\* One request was denied and answered with 429, and another was allowed and
\* sent on to a node of a ring that holds both nodes.
C28_Witness ==
    /\ DOMAIN ring = NodeHashes
    /\ \E i \in 1..Len(exchanges) :
           exchanges[i].limiter = "denied" /\ exchanges[i].response = "429"
    /\ \E i \in 1..Len(exchanges) :
           /\ exchanges[i].limiter = "allowed"
           /\ exchanges[i].forwarded = "all"
           /\ exchanges[i].response = "upstream"
           /\ lamport_timestamp > 0

\* The ids of a traversal.
Ids(t) == {t[i] : i \in 1..Len(t)}

\* In the list of hash_map, what follows the anchor up to and including node n.
UpTo(hash_map, anchor, n) ==
    LET t == Walk(hash_map, anchor, {}) IN
    IF n \in Ids(t) THEN SubSeq(t, 2, Position(t, n)) ELSE <<>>

\* The landing slot of node n placed after the anchor: n is reached from the
\* anchor, every node between them is greater than n, and the node after n is
\* not greater than n.
Landed(hash_map, anchor, n) ==
    LET slot == UpTo(hash_map, anchor, n) IN
    /\ slot # <<>>
    /\ \A i \in 1..(Len(slot) - 1) : S4Greater(slot[i], n)
    /\ hash_map[n].right # None => ~S4Greater(hash_map[n].right, n)

\* C29. Landing slot: when a node n with a left anchor L that is present is
\* inserted, by a local insert or by a delivered one, it is spliced after the
\* nodes following L that are greater than n: every node between L and n is
\* greater than n, and the node following n is not greater than n.
C29_LandingSlot ==
    [][\A r \in Replicas :
          Ready(r) =>
              /\ \A left \in DOMAIN HashMap(r), right \in Anchors,
                    value \in Values,
                    io \in {"ok", "db_error", "sns_error", "commit_error"} :
                     (/\ Insert(r, value, left, right, io)
                      /\ LocalInsert(Rga(r), value, left, right).outcome = "ok")
                         => Landed(HashMap(r)', left, minted'[r][Len(minted'[r])])
              /\ \A m \in sns :
                     (/\ m.op.operation = "Insert"
                      /\ m.op.left \in DOMAIN HashMap(r)
                      /\ m.op.s4vector \notin DOMAIN HashMap(r)
                      /\ HandleSnsNotification(r, m)
                      /\ ~hung'[r])
                         => Landed(HashMap(r)', m.op.left, m.op.s4vector)]_vars

\* C30. Head insert: an insert with no left anchor into a list that is not
\* empty places the new node by the skip-while-greater rule from head, so
\* every node reachable from head before the insert is reachable after it.
C30_HeadInsert ==
    [][\A r \in Replicas :
          (Ready(r) /\ Rga(r).head # None) =>
              /\ \A right \in Anchors, value \in Values,
                    io \in {"ok", "db_error", "sns_error", "commit_error"} :
                     (/\ Insert(r, value, None, right, io)
                      /\ LocalInsert(Rga(r), value, None, right).outcome = "ok")
                         => Ids(Traversal(Rga(r))) \subseteq Ids(Traversal(Rga(r)'))
              /\ \A m \in sns :
                     (/\ m.op.operation = "Insert"
                      /\ m.op.left = None
                      /\ m.op.s4vector \notin DOMAIN HashMap(r)
                      /\ HandleSnsNotification(r, m))
                         => Ids(Traversal(Rga(r))) \subseteq Ids(Traversal(Rga(r)'))]_vars

\* The node an entry of the buffer depends on: the left anchor of an insert
\* (None when it names none), the target of an update or delete.
Dependency(op) == IF op.operation = "Insert" THEN op.left ELSE op.s4vector

\* The entries of a buffer whose dependency is no key of hash_map, in order.
RECURSIVE Unmet(_, _)
Unmet(buffer, hash_map) ==
    IF buffer = <<>> THEN <<>>
    ELSE (IF Dependency(Head(buffer)) # None
             /\ Dependency(Head(buffer)) \notin DOMAIN hash_map
          THEN <<Head(buffer)>> ELSE <<>>)
         \o Unmet(Tail(buffer), hash_map)

\* The sweep of a step of replica r was selective: the entries whose
\* dependency is still missing after the step are all in the buffer, in their
\* order, and no entry whose dependency was present before the step is.
Selective(r) ==
    /\ Unmet(Rga(r).buffer, HashMap(r)') = Unmet(Rga(r)'.buffer, HashMap(r)')
    /\ Unmet(Rga(r)'.buffer, HashMap(r)) = Rga(r)'.buffer

\* C31. Pending sweep selectivity: the sweep that follows a successful local
\* operation removes from pending the entries whose dependency is present in
\* by_id (the left anchor of an insert, the target of an update or delete);
\* every other entry stays in pending, in its original relative order, and is
\* neither dropped nor applied.
C31_SweepSelectivity ==
    [][\A r \in Replicas :
          (Ready(r) /\ requests' = requests + 1 /\ Rga(r).buffer # <<>>) =>
              /\ \A left \in Anchors, right \in Anchors, value \in Values,
                    io \in {"ok", "db_error", "sns_error", "commit_error"} :
                     (/\ minted' # minted
                      /\ Insert(r, value, left, right, io)
                      /\ LocalInsert(Rga(r), value, left, right).outcome = "ok")
                         => Selective(r)
              /\ \A s4 \in DOMAIN HashMap(r), value \in Values,
                    io \in {"ok", "db_error", "sns_error"} :
                     (/\ minted' = minted
                      /\ Update(r, s4, value, io)
                      /\ LocalUpdate(Rga(r), s4, value).outcome = "ok")
                         => Selective(r)
              /\ \A s4 \in DOMAIN HashMap(r), io \in {"ok", "db_error", "sns_error"} :
                     (/\ minted' = minted
                      /\ Delete(r, s4, io)
                      /\ LocalDelete(Rga(r), s4).outcome = "ok")
                         => Selective(r)]_vars

\* After a step of replica r that applied an operation, pending has been
\* swept: no entry is left whose dependency was a key of by_id when the
\* operation had been applied (the keys before the step, and `new`, the key
\* the operation added).
Swept(r, new) ==
    LET keys == [x \in DOMAIN HashMap(r) \cup new |-> TRUE]
    IN Unmet(Rga(r)'.buffer, keys) = Rga(r)'.buffer

\* C32. Sweep after every successful apply: after any successful apply, local
\* or remote, pending is swept once before the call returns; when a remote
\* insert of A is applied, an operation in pending whose only missing
\* dependency was A has been applied when the remote apply returns.
C32_SweepAfterApply ==
    [][\A r \in Replicas :
          (Ready(r) /\ Rga(r).buffer # <<>>) =>
              /\ \A m \in sns :
                     (/\ requests' = requests
                      /\ HandleSnsNotification(r, m)
                      /\ RemoteApply(Rga(r), m.op).outcome = "ok"
                      /\ ~Early(Rga(r), m.op))
                         => Swept(r, IF m.op.operation = "Insert"
                                     THEN {m.op.s4vector} ELSE {})
              /\ \A left \in Anchors, right \in Anchors, value \in Values,
                    io \in {"ok", "db_error", "sns_error", "commit_error"} :
                     (/\ requests' = requests + 1
                      /\ minted' # minted
                      /\ Insert(r, value, left, right, io)
                      /\ LocalInsert(Rga(r), value, left, right).outcome = "ok")
                         => Swept(r, {minted'[r][Len(minted'[r])]})
              /\ \A s4 \in DOMAIN HashMap(r), value \in Values,
                    io \in {"ok", "db_error", "sns_error"} :
                     (/\ requests' = requests + 1
                      /\ minted' = minted
                      /\ Update(r, s4, value, io)
                      /\ LocalUpdate(Rga(r), s4, value).outcome = "ok")
                         => Swept(r, {})
              /\ \A s4 \in DOMAIN HashMap(r), io \in {"ok", "db_error", "sns_error"} :
                     (/\ requests' = requests + 1
                      /\ minted' = minted
                      /\ Delete(r, s4, io)
                      /\ LocalDelete(Rga(r), s4).outcome = "ok")
                         => Swept(r, {})]_vars

\* C33. Recovery replay order: replaying the snapshot rows in ascending
\* (ssn, sum, sid, seq) order into a fresh RGA through remote inserts without
\* anchors behaves as append: after the replay every replayed node is
\* reachable from head, and the traversal visits the nodes in the scan order.
C33_ReplayAppends ==
    [][\A r \in Replicas :
          FetchDocument(r) =>
              /\ DOMAIN snapshot \subseteq Ids(Traversal(Rga(r)'))
              /\ Traversal(Rga(r)') = SortIds(DOMAIN snapshot)]_vars

\* C34. Scan order equals traversal order: in every RGA state reached through
\* local and remote operations, the node ids along the traversal from head are
\* ascending in (ssn, sum, sid, seq), the order in which the snapshot is
\* scanned at recovery.
C34_ScanOrderIsTraversalOrder ==
    \A r \in Replicas :
        Ready(r) =>
            LET t == Traversal(Rga(r)) IN
            \A i \in 1..Len(t), j \in 1..Len(t) : i < j => S4Less(t[i], t[j])

\* C35. Right anchor does not gate: whether an insert is applied or kept in
\* pending depends on its left anchor alone; an insert whose left anchor is
\* present, or that names no left anchor, is not answered with the
\* dependency error and is not put in pending, whatever right anchor it names.
C35_RightAnchorDoesNotGate ==
    [][\A r \in Replicas :
          (Ready(r) /\ requests' = requests + 1 /\ minted' # minted) =>
              \A left \in DOMAIN HashMap(r) \cup {None}, right \in Anchors,
                 value \in Values,
                 io \in {"ok", "db_error", "sns_error", "commit_error"} :
                  Insert(r, value, left, right, io) =>
                      /\ LocalInsert(Rga(r), value, left, right).outcome # "err"
                      /\ \A i \in 1..Len(Rga(r)'.buffer) :
                             Rga(r)'.buffer[i].s4vector # minted'[r][Len(minted'[r])]]_vars

\* C36. Identifier components: every S4Vector minted by a local insert on the
\* replica with replica id r has sid = r, and the S4Vectors minted for the
\* document in one session have the same ssn: two replicas inserting
\* concurrently produce ids that differ in sid, not in ssn.
C36_IdentifierComponents ==
    \A r \in Replicas :
        \A i \in 1..Len(minted[r]) :
            /\ minted[r][i][3] = r
            /\ \A q \in Replicas :
                   \A j \in 1..Len(minted[q]) : minted[q][j][1] = minted[r][i][1]

\* C37. Invalid requests leave state untouched: a request with a malformed
\* document id, an insert or update without a value, an update or delete
\* without a target id, or a broadcast message with an unknown operation tag
\* or a missing value is answered with an error by the handler, which does
\* not abort, and changes nothing: the RGA with its buffer and sequence
\* counter, the log and the snapshot are unchanged and nothing is published.
C37_InvalidRequests ==
    [][\A r \in Replicas, kind \in InvalidKinds :
          InvalidRequest(r, kind) =>
              /\ UNCHANGED <<rgas, log, snapshot, sns>>
              /\ rejected'[r].answer \in Errors]_vars

\* An entry of pending took effect in replica r's RGA by the step: it has left
\* the buffer and its node is in by_id (tombstoned, for a delete).
TookEffect(r, op) ==
    /\ \A i \in 1..Len(Rga(r)'.buffer) : Rga(r)'.buffer[i] # op
    /\ op.s4vector \in DOMAIN HashMap(r)'
    /\ op.operation = "Delete" => HashMap(r)'[op.s4vector].tombstone

\* The operation of the entry is in the log and has been published by r.
Propagated(r, op) ==
    /\ op.s4vector \in LogIds'
    /\ \E m \in sns' :
           /\ m.publisher = r
           /\ m.op.operation = op.operation
           /\ m.op.s4vector = op.s4vector

\* Every entry of pending that the step of replica r promoted is propagated.
PromotedReachPeers(r) ==
    \A i \in 1..Len(Rga(r).buffer) :
        TookEffect(r, Rga(r).buffer[i]) => Propagated(r, Rga(r).buffer[i])

\* C38. Promoted local operations reach peers: every locally originated
\* operation that takes effect in the origin's RGA, applied directly or
\* promoted later from pending by a sweep, is written to the log and
\* published; no operation is in the origin's RGA while absent from the log
\* and never sent. With every I/O succeeding: each step of a local request
\* that succeeds propagates its own operation and every entry it promotes.
C38_PromotedReachPeers ==
    [][\A r \in Replicas :
          (Ready(r) /\ requests' = requests + 1) =>
              /\ \A left \in Anchors, right \in Anchors, value \in Values :
                     (/\ minted' # minted
                      /\ Insert(r, value, left, right, "ok")
                      /\ LocalInsert(Rga(r), value, left, right).outcome = "ok")
                         => /\ PromotedReachPeers(r)
                            /\ Propagated(r, LocalInsert(Rga(r), value, left, right).op)
              /\ \A s4 \in DOMAIN HashMap(r), value \in Values :
                     (/\ minted' = minted
                      /\ Update(r, s4, value, "ok")
                      /\ LocalUpdate(Rga(r), s4, value).outcome = "ok")
                         => /\ PromotedReachPeers(r)
                            /\ Propagated(r, LocalUpdate(Rga(r), s4, value).op)
              /\ \A s4 \in DOMAIN HashMap(r) :
                     (/\ minted' = minted
                      /\ Delete(r, s4, "ok")
                      /\ LocalDelete(Rga(r), s4).outcome = "ok")
                         => /\ PromotedReachPeers(r)
                            /\ Propagated(r, LocalDelete(Rga(r), s4).op)]_vars

\* The step committed rows exactly when it left the descriptor op of replica r
\* published: a commit has the descriptor on the topic, and a new message on
\* the topic has its rows committed.
CommittedIffPublished(r, op) ==
    /\ log' # log => Message(op, r) \in sns'
    /\ sns' # sns => (log' # log /\ op.s4vector \in DOMAIN snapshot')

\* C39. Published if and only if committed: when a local insert, update or
\* delete request finishes, with success or with an error, its descriptor has
\* been published if and only if its log and snapshot rows are committed.
C39_PublishedIffCommitted ==
    [][\A r \in Replicas :
          (Ready(r) /\ requests' = requests + 1) =>
              /\ \A value \in Values, left \in Anchors, right \in Anchors,
                    io \in {"ok", "db_error", "sns_error", "commit_error"} :
                     (minted' # minted /\ Insert(r, value, left, right, io)) =>
                         CommittedIffPublished(r,
                             LocalInsert(Rga(r), value, left, right).op)
              /\ \A s4 \in KnownIds, value \in Values,
                    io \in {"ok", "db_error", "sns_error"} :
                     (minted' = minted /\ Update(r, s4, value, io)) =>
                         CommittedIffPublished(r, LocalUpdate(Rga(r), s4, value).op)
              /\ \A s4 \in KnownIds, io \in {"ok", "db_error", "sns_error"} :
                     (minted' = minted /\ Delete(r, s4, io)) =>
                         CommittedIffPublished(r, LocalDelete(Rga(r), s4).op)]_vars

\* C40. A new document is empty: after create_document and the activation of
\* the document on a replica, and before any insert, read() returns the empty
\* sequence and by_id holds no live node.
C40_NewDocumentEmpty ==
    \A r \in Replicas :
        (created /\ Ready(r) /\ requests = 0 /\ ~restarted[r]) =>
            /\ Read(Rga(r)) = <<>>
            /\ \A s4 \in DOMAIN HashMap(r) : HashMap(r)[s4].tombstone

====
